---------------------------- MODULE Spec2Model ----------------------------
(***************************************************************************)
(* Model of login_scraper_agent.py: the in-memory job registry, the submit *)
(* and status endpoints, the background task that streams the external     *)
(* agent, and the response parser.                                         *)
(*                                                                         *)
(* Text is a sequence of one-character strings, so that strip(), lower(),  *)
(* the substring tests and the regular expression of the parser are        *)
(* computed character by character as Python computes them.  An            *)
(* Optional[T] value is None == <<>> or Some(v) == <<v>>.                   *)
(***************************************************************************)
EXTENDS Integers, Sequences, FiniteSets, TLC

VARIABLES
    scraping_jobs,     \* the registry: job id -> ScrapingJob record
    tasks,             \* the background tasks, in the order they were scheduled
    now,               \* the wall clock, in seconds (datetime.now())
    langsmith_client,  \* TRUE iff LANGSMITH_API_KEY was set at import time
    response,          \* the HTTP response sent by the step just taken, if any
    logged,            \* the log records written by the step just taken
    parse_in,          \* the text handed to a direct call of the parser
    parse_out          \* <<>> before that call, <<result>> after it

vars == <<scraping_jobs, tasks, now, langsmith_client, response, logged, parse_in, parse_out>>

(***************************************************************************)
(* Bounds of the model.                                                    *)
(***************************************************************************)
MaxJobs == 2
MaxChunks == 2
MaxTick == 1
MaxPieces == 4
StartTime == 1699999999

(***************************************************************************)
(* Optional values and text helpers (Python str methods).                  *)
(***************************************************************************)
None == <<>>

Some(v) == <<v>>

Min(a, b) == IF a < b THEN a ELSE b

\* The characters str.strip() removes and the regular expression's \s matches.
Whitespace == {" ", "\t", "\n", "\r", "\f"}

UpperCase == <<"A", "B", "C", "D", "E", "F", "G", "H", "I", "J", "K", "L", "M", "N", "O", "P", "Q", "R", "S", "T", "U", "V", "W", "X", "Y", "Z">>

LowerCase == <<"a", "b", "c", "d", "e", "f", "g", "h", "i", "j", "k", "l", "m", "n", "o", "p", "q", "r", "s", "t", "u", "v", "w", "x", "y", "z">>

UpperSet == {UpperCase[i] : i \in 1..26}

LowerChar(c) == IF c \in UpperSet THEN LowerCase[CHOOSE i \in 1..26 : UpperCase[i] = c] ELSE c

\* str.lower() (SubSeq turns the function into a tuple, once)
Lower(s) == SubSeq([i \in 1..Len(s) |-> LowerChar(s[i])], 1, Len(s))

\* s[i:] starts with p, i counted from 1
StartsWithAt(s, p, i) == /\ i >= 1
                         /\ i + Len(p) - 1 <= Len(s)
                         /\ \A k \in 1..Len(p) : s[i + k - 1] = p[k]

\* str.startswith(p)
StartsWith(s, p) == StartsWithAt(s, p, 1)

\* str.endswith(p)
EndsWith(s, p) == Len(p) <= Len(s) /\ StartsWithAt(s, p, Len(s) - Len(p) + 1)

\* p in s
Contains(s, p) == \E i \in 1..(Len(s) + 1) : StartsWithAt(s, p, i)

RECURSIVE SkipSpace(_, _)
\* The first position >= i of s that holds no whitespace (Len(s)+1 if none)
SkipSpace(s, i) == IF i > Len(s) \/ s[i] \notin Whitespace THEN i ELSE SkipSpace(s, i + 1)

RECURSIVE SkipSpaceBack(_, _)
\* The last position <= i of s that holds no whitespace (0 if none)
SkipSpaceBack(s, i) == IF i < 1 \/ s[i] \notin Whitespace THEN i ELSE SkipSpaceBack(s, i - 1)

\* str.strip()
Strip(s) == SubSeq(s, SkipSpace(s, 1), SkipSpaceBack(s, Len(s)))

\* s[:n]
Truncate(s, n) == SubSeq(s, 1, Min(n, Len(s)))

\* bool(s) of an Optional[str]: None and "" are falsy
Truthy(opt) == opt # None /\ opt[1] # <<>>

RECURSIVE IntToStr(_)
\* str(n) of a non-negative integer, in decimal
IntToStr(n) ==
    LET digit == <<"0", "1", "2", "3", "4", "5", "6", "7", "8", "9">>[(n % 10) + 1]
    IN  IF n < 10 THEN <<digit>> ELSE IntToStr(n \div 10) \o <<digit>>

(***************************************************************************)
(* extract_html_from_response                                              *)
(***************************************************************************)
\* The backtick character, U+0060 (a TLA+ string cannot hold it).
Backtick == "BACKTICK"

FenceTag == <<Backtick, Backtick, Backtick, "h", "t", "m", "l">>

Fence == <<Backtick, Backtick, Backtick>>

DoctypeTag == <<"<", "!", "D", "O", "C", "T", "Y", "P", "E", " ", "h", "t", "m", "l">>

HtmlOpen == <<"<", "h", "t", "m", "l">>

HtmlClose == <<"<", "/", "h", "t", "m", "l">> \o <<">">>

\* s[p:] matches \s*```: a greedy \s* from p, then the closing fence
ClosesAt(s, p) == StartsWithAt(s, Fence, SkipSpace(s, p))

RECURSIVE LazyEnd(_, _)
\* Where the lazy group (.*?) that may end at p or later ends: the first
\* position from which \s*``` matches, 0 when there is none.
LazyEnd(s, p) ==
    IF p > Len(s) + 1 THEN 0
    ELSE IF ClosesAt(s, p) THEN p
    ELSE LazyEnd(s, p + 1)

RECURSIVE SearchFrom(_, _, _)
\* re.search tries the start positions from left to right.  At a start i the
\* tag is compared ignoring case (low is s.lower()), the first \s* takes all
\* the whitespace that follows, and the group is what the lazy scan spans.
\* (Backtracking into the first \s* finds no other match: a group that starts
\* inside that whitespace can only end where the one that starts after it
\* ends.)
SearchFrom(s, low, i) ==
    IF i > Len(s) THEN None
    ELSE IF StartsWithAt(low, FenceTag, i)
         THEN LET g == SkipSpace(s, i + Len(FenceTag))
                  p == LazyEnd(s, g)
              IN  IF p # 0 THEN Some(SubSeq(s, g, p - 1)) ELSE SearchFrom(s, low, i + 1)
         ELSE SearchFrom(s, low, i + 1)

\* re.search(r"```html\s*(.*?)\s*```", response, re.DOTALL | re.IGNORECASE):
\* None, or Some(group(1)) of the leftmost match.
FenceSearch(s) == SearchFrom(s, Lower(s), 1)

\* A parser that returns whatever the fenced block holds, unvalidated.
extract_html_unvalidated(resp) ==
    LET match == FenceSearch(resp)
        stripped_response == Strip(resp)
    IN  IF match # None THEN Some(Strip(match[1]))
        ELSE IF StartsWith(stripped_response, DoctypeTag)
                \/ (StartsWith(stripped_response, HtmlOpen) /\ EndsWith(stripped_response, HtmlClose))
             THEN Some(stripped_response)
             ELSE None

\* A parser whose fallback accepts any text that starts with "<".
extract_html_loose_fallback(resp) ==
    LET match == FenceSearch(resp)
        stripped_response == Strip(resp)
    IN  IF match # None
        THEN LET extracted_html == Strip(match[1])
             IN  IF StartsWith(extracted_html, <<"<">>) /\ EndsWith(extracted_html, <<">">>)
                 THEN Some(extracted_html)
                 ELSE None
        ELSE IF StartsWith(stripped_response, <<"<">>)
             THEN Some(stripped_response)
             ELSE None

\* The first place >= i where p stands in s (0 if none)
RECURSIVE Find(_, _, _)
Find(s, p, i) ==
    IF i + Len(p) - 1 > Len(s) THEN 0
    ELSE IF StartsWithAt(s, p, i) THEN i
    ELSE Find(s, p, i + 1)

\* A parser whose fallback cuts the document out of the text: from the first
\* <html to the </html> that follows it.
extract_html_substring_fallback(resp) ==
    LET match == FenceSearch(resp)
        start == Find(resp, HtmlOpen, 1)
        end == IF start = 0 THEN 0 ELSE Find(resp, HtmlClose, start)
    IN  IF match # None
        THEN LET extracted_html == Strip(match[1])
             IN  IF StartsWith(extracted_html, <<"<">>) /\ EndsWith(extracted_html, <<">">>)
                 THEN Some(extracted_html)
                 ELSE None
        ELSE IF end # 0
             THEN Some(SubSeq(resp, start, end + Len(HtmlClose) - 1))
             ELSE None

extract_html_from_response(resp) ==
    LET match == FenceSearch(resp)
        stripped_response == Strip(resp)
    IN  IF match # None
        THEN LET extracted_html == Strip(match[1])
             IN  IF StartsWith(extracted_html, <<"<">>) /\ EndsWith(extracted_html, <<">">>)
                 THEN Some(extracted_html)
                 ELSE None
        ELSE IF StartsWith(stripped_response, DoctypeTag)
                \/ (StartsWith(stripped_response, HtmlOpen) /\ EndsWith(stripped_response, HtmlClose))
             THEN Some(stripped_response)
             ELSE None

(***************************************************************************)
(* Values carried by a chunk of the agent stream (a Python dict).  A value *)
(* is None (also: key absent, which dict.get reports as None), a str, or   *)
(* some other object that is truthy or falsy.                              *)
(***************************************************************************)
PyNone == [type |-> "NoneType", str |-> <<>>, truthy |-> FALSE]

PyStr(s) == [type |-> "str", str |-> s, truthy |-> s # <<>>]

PyObj(t) == [type |-> "object", str |-> <<>>, truthy |-> t]

\* a or b
PyOr(a, b) == IF a.truthy THEN a ELSE b

\* chunk["run_info"]: absent, a dict (whose "run_id" may be absent), or a
\* value without a get method.
NoRunInfo == [type |-> "absent", run_id |-> PyNone]

RunInfo(v) == [type |-> "dict", run_id |-> v]

BadRunInfo == [type |-> "NoneType", run_id |-> PyNone]

\* chunk["vm_instance"]: absent, an object without a url attribute, or a
\* handle with one.
NoVm == [type |-> "NoneType", url |-> None]

VmHandle(u) == [type |-> "handle", url |-> Some(u)]

VmNoUrl == [type |-> "object", url |-> None]

EmptyChunk == [run_info |-> NoRunInfo, run_id |-> PyNone, vm_instance |-> NoVm, agent_response |-> PyNone, output |-> PyNone, content |-> PyNone]

TextChunk(s) == [EmptyChunk EXCEPT !.agent_response = PyStr(s)]

(***************************************************************************)
(* The texts, chunks and exceptions the external agent is taken to produce. *)
(***************************************************************************)
ExampleText == <<".", ".", ".", Backtick, Backtick, Backtick, "h", "t", "m", "l", "<", "h", "t", "m", "l", ">", "<", "b", "o", "d", "y", ">", "h", "i", "<", "/", "b", "o", "d", "y", ">", "<", "/", "h", "t", "m", "l", ">", Backtick, Backtick, Backtick, ".", ".", ".">>

ExampleHtml == <<"<", "h", "t", "m", "l", ">", "<", "b", "o", "d", "y", ">", "h", "i", "<", "/", "b", "o", "d", "y", ">", "<", "/", "h", "t", "m", "l", ">">>

CaptchaText == <<"L", "o", "g", "i", "n", " ", "f", "a", "i", "l", "e", "d", ":", " ", "C", "A", "P", "T", "C", "H", "A", " ", "d", "e", "t", "e", "c", "t", "e", "d", ".">>

CaptchaMixed == <<" ", "C", "a", "p", "t", "c", "h", "a", "\n">>

NotHtmlBlock == FenceTag \o <<" ", "n", "o", " ">> \o Fence

VmUrl == <<"h", "t", "t", "p", "s", ":", "/", "/", "v", "m", ".", "e", "x", "a", "m", "p", "l", "e", "/", "1">>

RunId == <<"r", "u", "n", "-", "1">>

Fragments == {<<" ">>, ExampleText, CaptchaText, CaptchaMixed}

Chunks ==
    {TextChunk(s) : s \in Fragments}
    \cup {[EmptyChunk EXCEPT !.vm_instance = VmHandle(VmUrl)],
          [EmptyChunk EXCEPT !.run_info = RunInfo(PyStr(RunId))],
          [EmptyChunk EXCEPT !.run_info = BadRunInfo]}

TestError == <<"T", "e", "s", "t", " ", "e", "r", "r", "o", "r">>

\* str(e) of the exceptions the stream may raise
ExceptionMessages == {TestError}

\* str(e) of the AttributeError raised by None.get("run_id")
AttributeErrorMessage == <<"'", "N", "o", "n", "e", "T", "y", "p", "e", "'", " ", "o", "b", "j", "e", "c", "t", " ", "h", "a", "s", " ", "n", "o", " ", "a", "t", "t", "r", "i", "b", "u", "t", "e", " ", "'", "g", "e", "t", "'">>

ExampleUrl == <<"h", "t", "t", "p", "s", ":", "/", "/", "e", "x", "a", "m", "p", "l", "e", ".", "c", "o", "m">>

\* Request bodies of the submit endpoint (LoginCredentials).
Credentials == {[url |-> ExampleUrl, username |-> <<"u">>, password |-> <<"p">>]}

Times == StartTime..(StartTime + MaxTick)

(***************************************************************************)
(* Log records.  logging.basicConfig(level=logging.INFO) drops the debug   *)
(* records, so only the calls at INFO and above are written.               *)
(***************************************************************************)
Log(level, msg) == [level |-> level, msg |-> msg]

\* logger.info(f"Received scrape request for URL: {credentials.url}. Assigning Job ID: {job_id}")
LogScrapeRequest(url, job_id) ==
    Log("INFO", <<"R", "e", "c", "e", "i", "v", "e", "d", " ", "s", "c", "r", "a", "p", "e", " ", "r", "e", "q", "u", "e", "s", "t", " ", "f", "o", "r", " ", "U", "R", "L", ":", " ">> \o url \o <<".", " ", "A", "s", "s", "i", "g", "n", "i", "n", "g", " ", "J", "o", "b", " ", "I", "D", ":", " ">> \o job_id)

\* logger.warning(f"Job ID not found: {job_id}")
LogJobNotFound(job_id) == Log("WARNING", <<"J", "o", "b", " ", "I", "D", " ", "n", "o", "t", " ", "f", "o", "u", "n", "d", ":", " ">> \o job_id)

\* logger.info(f"Starting background processing for Job ID: {job_id}, URL: {url}")
LogStarting(job_id, url) ==
    Log("INFO", <<"S", "t", "a", "r", "t", "i", "n", "g", " ", "b", "a", "c", "k", "g", "r", "o", "u", "n", "d", " ", "p", "r", "o", "c", "e", "s", "s", "i", "n", "g", " ", "f", "o", "r", " ", "J", "o", "b", " ", "I", "D", ":", " ">> \o job_id \o <<",", " ", "U", "R", "L", ":", " ">> \o url)

\* logger.error(f"Job ID {job_id} disappeared before processing could start.")
LogDisappearedAtStart(job_id) ==
    Log("ERROR", <<"J", "o", "b", " ", "I", "D", " ">> \o job_id \o <<" ", "d", "i", "s", "a", "p", "p", "e", "a", "r", "e", "d", " ", "b", "e", "f", "o", "r", "e", " ", "p", "r", "o", "c", "e", "s", "s", "i", "n", "g", " ", "c", "o", "u", "l", "d", " ", "s", "t", "a", "r", "t", ".">>)

\* logger.info(f"LangSmith tracing enabled for Job ID: {job_id}")
LogTracingEnabled(job_id) == Log("INFO", <<"L", "a", "n", "g", "S", "m", "i", "t", "h", " ", "t", "r", "a", "c", "i", "n", "g", " ", "e", "n", "a", "b", "l", "e", "d", " ", "f", "o", "r", " ", "J", "o", "b", " ", "I", "D", ":", " ">> \o job_id)

\* logger.info(f"Invoking cua_graph.astream for Job ID: {job_id}")
LogInvoking(job_id) == Log("INFO", <<"I", "n", "v", "o", "k", "i", "n", "g", " ", "c", "u", "a", "_", "g", "r", "a", "p", "h", ".", "a", "s", "t", "r", "e", "a", "m", " ", "f", "o", "r", " ", "J", "o", "b", " ", "I", "D", ":", " ">> \o job_id)

\* logger.info(f"LangSmith Run ID: {run_id}, Trace URL: {trace_url}")
LogRunId(run_id, trace_url) ==
    Log("INFO", <<"L", "a", "n", "g", "S", "m", "i", "t", "h", " ", "R", "u", "n", " ", "I", "D", ":", " ">> \o run_id \o <<",", " ", "T", "r", "a", "c", "e", " ", "U", "R", "L", ":", " ">> \o trace_url)

\* logger.info(f"VM URL obtained: {vm_url}")
LogVmUrl(vm_url) == Log("INFO", <<"V", "M", " ", "U", "R", "L", " ", "o", "b", "t", "a", "i", "n", "e", "d", ":", " ">> \o vm_url)

\* logger.info(f"Agent stream finished for Job ID: {job_id}. Final response length: {len(agent_final_response)}")
LogStreamFinished(job_id, n) ==
    Log("INFO", <<"A", "g", "e", "n", "t", " ", "s", "t", "r", "e", "a", "m", " ", "f", "i", "n", "i", "s", "h", "e", "d", " ", "f", "o", "r", " ", "J", "o", "b", " ", "I", "D", ":", " ">> \o job_id \o <<".", " ", "F", "i", "n", "a", "l", " ", "r", "e", "s", "p", "o", "n", "s", "e", " ", "l", "e", "n", "g", "t", "h", ":", " ">> \o IntToStr(n))

\* logger.info(f"Successfully extracted HTML content for Job ID: {job_id} ({len(html_content)} characters)")
LogExtracted(job_id, n) ==
    Log("INFO", <<"S", "u", "c", "c", "e", "s", "s", "f", "u", "l", "l", "y", " ", "e", "x", "t", "r", "a", "c", "t", "e", "d", " ", "H", "T", "M", "L", " ", "c", "o", "n", "t", "e", "n", "t", " ", "f", "o", "r", " ", "J", "o", "b", " ", "I", "D", ":", " ">> \o job_id \o <<" ", "(">> \o IntToStr(n) \o <<" ", "c", "h", "a", "r", "a", "c", "t", "e", "r", "s", ")">>)

\* logger.warning("Content within ```html block doesn't look like valid HTML.")
LogNotValidHtml ==
    Log("WARNING", <<"C", "o", "n", "t", "e", "n", "t", " ", "w", "i", "t", "h", "i", "n", " ">> \o FenceTag \o <<" ", "b", "l", "o", "c", "k", " ", "d", "o", "e", "s", "n", "'", "t", " ", "l", "o", "o", "k", " ", "l", "i", "k", "e", " ", "v", "a", "l", "i", "d", " ", "H", "T", "M", "L", ".">>)

\* logger.warning(f"HTML extraction failed for Job ID: {job_id}. Error/Response: {error_message}")
LogExtractionFailed(job_id, error_message) ==
    Log("WARNING", <<"H", "T", "M", "L", " ", "e", "x", "t", "r", "a", "c", "t", "i", "o", "n", " ", "f", "a", "i", "l", "e", "d", " ", "f", "o", "r", " ", "J", "o", "b", " ", "I", "D", ":", " ">> \o job_id \o <<".", " ", "E", "r", "r", "o", "r", "/", "R", "e", "s", "p", "o", "n", "s", "e", ":", " ">> \o error_message)

\* logger.exception(f"Job {job_id} failed with an unhandled exception:"): the
\* message, then the traceback, whose last line carries str(e).
LogException(job_id, e) ==
    Log("ERROR", <<"J", "o", "b", " ">> \o job_id \o <<" ", "f", "a", "i", "l", "e", "d", " ", "w", "i", "t", "h", " ", "a", "n", " ", "u", "n", "h", "a", "n", "d", "l", "e", "d", " ", "e", "x", "c", "e", "p", "t", "i", "o", "n", ":", "\n">> \o e)

\* logger.info(f"Job {job_id} processing finished. Final Status: {job.status}")
LogFinished(job_id, status) ==
    Log("INFO", <<"J", "o", "b", " ">> \o job_id \o <<" ", "p", "r", "o", "c", "e", "s", "s", "i", "n", "g", " ", "f", "i", "n", "i", "s", "h", "e", "d", ".", " ", "F", "i", "n", "a", "l", " ", "S", "t", "a", "t", "u", "s", ":", " ">> \o status)

\* logger.error(f"Job ID {job_id} disappeared before final status update.")
LogDisappearedAtEnd(job_id) ==
    Log("ERROR", <<"J", "o", "b", " ", "I", "D", " ">> \o job_id \o <<" ", "d", "i", "s", "a", "p", "p", "e", "a", "r", "e", "d", " ", "b", "e", "f", "o", "r", "e", " ", "f", "i", "n", "a", "l", " ", "s", "t", "a", "t", "u", "s", " ", "u", "p", "d", "a", "t", "e", ".">>)

StatusText(status) ==
    CASE status = "completed" -> <<"c", "o", "m", "p", "l", "e", "t", "e", "d">>
      [] status = "failed" -> <<"f", "a", "i", "l", "e", "d">>
      [] status = "running" -> <<"r", "u", "n", "n", "i", "n", "g">>
      [] OTHER -> <<"p", "e", "n", "d", "i", "n", "g">>

(***************************************************************************)
(* scrape_page                                                             *)
(***************************************************************************)
\* A job id made of the timestamp alone.
JobIdNoCounter(n, t) == <<"j", "o", "b", "_">> \o IntToStr(t)

\* f"job_{len(scraping_jobs) + 1}_{int(datetime.now().timestamp())}"
JobId(n, t) == <<"j", "o", "b", "_">> \o IntToStr(n) \o <<"_">> \o IntToStr(t)

\* ScrapingJob(job_id=..., status="pending", started_at=...): the other fields
\* take their defaults, and the extra keyword url is ignored by the model class.
NewJob(job_id, t) ==
    [job_id |-> job_id, status |-> "pending", vm_url |-> None, html_content |-> None,
     error |-> None, langsmith_trace_url |-> None, started_at |-> t, completed_at |-> None]

\* The frame of process_scraping_job(job_id, url, username, password) as
\* add_task schedules it; stream is the part of its agent stream consumed so
\* far and chunks the length of that part.
NewTask(job_id, cred) ==
    [job_id |-> job_id, url |-> cred.url, username |-> cred.username, password |-> cred.password,
     pc |-> "scheduled", run_id |-> None, vm_url |-> None, agent_final_response |-> <<>>,
     html_content |-> None, error_message |-> None, exc |-> None, chunks |-> 0, stream |-> <<>>]

NoResponse == [op |-> "none", code |-> 0, req |-> <<>>, body |-> [detail |-> <<>>]]

ScrapingJobStarted == <<"S", "c", "r", "a", "p", "i", "n", "g", " ", "j", "o", "b", " ", "s", "t", "a", "r", "t", "e", "d", ".">>

JobNotFound == <<"J", "o", "b", " ", "n", "o", "t", " ", "f", "o", "u", "n", "d">>

SetItem(d, k, v) == [x \in (DOMAIN d) \cup {k} |-> IF x = k THEN v ELSE d[x]]

\* A submit endpoint that schedules the task without storing the record.
ScrapePageTaskOnly(cred) ==
    /\ Len(tasks) < MaxJobs
    /\ LET job_id == JobId(Cardinality(DOMAIN scraping_jobs) + 1, now)
       IN  /\ tasks' = Append(tasks, NewTask(job_id, cred))
           /\ response' = [op |-> "scrape_page", code |-> 202, req |-> <<>>,
                           body |-> [job_id |-> job_id, status |-> "pending", message |-> ScrapingJobStarted]]
           /\ logged' = <<LogScrapeRequest(cred.url, job_id)>>
    /\ UNCHANGED <<scraping_jobs, now, langsmith_client, parse_in, parse_out>>

\* A submit endpoint that schedules the task twice.
ScrapePageTwoTasks(cred) ==
    /\ Len(tasks) < MaxJobs
    /\ LET job_id == JobId(Cardinality(DOMAIN scraping_jobs) + 1, now)
       IN  /\ scraping_jobs' = SetItem(scraping_jobs, job_id, NewJob(job_id, now))
           /\ tasks' = Append(Append(tasks, NewTask(job_id, cred)), NewTask(job_id, cred))
           /\ response' = [op |-> "scrape_page", code |-> 202, req |-> <<>>,
                           body |-> [job_id |-> job_id, status |-> "pending", message |-> ScrapingJobStarted]]
           /\ logged' = <<LogScrapeRequest(cred.url, job_id)>>
    /\ UNCHANGED <<now, langsmith_client, parse_in, parse_out>>

ScrapePage(cred) ==
    /\ Len(tasks) < MaxJobs
    /\ LET job_id == JobId(Cardinality(DOMAIN scraping_jobs) + 1, now)
       IN  /\ scraping_jobs' = SetItem(scraping_jobs, job_id, NewJob(job_id, now))
           /\ tasks' = Append(tasks, NewTask(job_id, cred))
           /\ response' = [op |-> "scrape_page", code |-> 202, req |-> <<>>,
                           body |-> [job_id |-> job_id, status |-> "pending", message |-> ScrapingJobStarted]]
           /\ logged' = <<LogScrapeRequest(cred.url, job_id)>>
    /\ UNCHANGED <<now, langsmith_client, parse_in, parse_out>>

(***************************************************************************)
(* get_job_status                                                         *)
(***************************************************************************)
\* A status endpoint that answers every id, known or not.
GetJobStatusNoCheck(job_id) ==
    /\ response' = [op |-> "get_job_status", code |-> 200, req |-> job_id,
                    body |-> IF job_id \in DOMAIN scraping_jobs THEN scraping_jobs[job_id] ELSE NewJob(job_id, now)]
    /\ logged' = <<>>
    /\ UNCHANGED <<scraping_jobs, tasks, now, langsmith_client, parse_in, parse_out>>

GetJobStatus(job_id) ==
    /\ response' = IF job_id \notin DOMAIN scraping_jobs
                   THEN [op |-> "get_job_status", code |-> 404, req |-> job_id, body |-> [detail |-> JobNotFound]]
                   ELSE [op |-> "get_job_status", code |-> 200, req |-> job_id, body |-> scraping_jobs[job_id]]
    /\ logged' = IF job_id \notin DOMAIN scraping_jobs THEN <<LogJobNotFound(job_id)>> ELSE <<>>
    /\ UNCHANGED <<scraping_jobs, tasks, now, langsmith_client, parse_in, parse_out>>

(***************************************************************************)
(* process_scraping_job                                                    *)
(***************************************************************************)
ErrTruncate == 500

NoOutputMessage == <<"A", "g", "e", "n", "t", " ", "p", "r", "o", "d", "u", "c", "e", "d", " ", "n", "o", " ", "o", "u", "t", "p", "u", "t", " ", "o", "r", " ", "f", "a", "i", "l", "e", "d", " ", "t", "o", " ", "e", "x", "t", "r", "a", "c", "t", " ", "H", "T", "M", "L", ".">>

ExtractFailedPrefix == <<"F", "a", "i", "l", "e", "d", " ", "t", "o", " ", "e", "x", "t", "r", "a", "c", "t", " ", "H", "T", "M", "L", ".", " ", "A", "g", "e", "n", "t", " ", "r", "e", "s", "p", "o", "n", "s", "e", ":", " ">>

UnhandledPrefix == <<"U", "n", "h", "a", "n", "d", "l", "e", "d", " ", "e", "x", "c", "e", "p", "t", "i", "o", "n", " ", "d", "u", "r", "i", "n", "g", " ", "a", "g", "e", "n", "t", " ", "e", "x", "e", "c", "u", "t", "i", "o", "n", ":", " ">>

TraceUrlPrefix == <<"h", "t", "t", "p", "s", ":", "/", "/", "s", "m", "i", "t", "h", ".", "l", "a", "n", "g", "c", "h", "a", "i", "n", ".", "c", "o", "m", "/", "r", "u", "n", "s", "/">>

LoginFailedPhrase == <<"l", "o", "g", "i", "n", " ", "f", "a", "i", "l", "e", "d">>

CaptchaPhrase == <<"c", "a", "p", "t", "c", "h", "a">>

CloudflarePhrase == <<"c", "l", "o", "u", "d", "f", "l", "a", "r", "e">>

TwoFaPhrase == <<"2", "f", "a">>

\* The generic message test: no known failure phrase in error_message.lower()
NoKnownPhrase(error_message) ==
    LET low == Lower(error_message)
    IN  /\ ~Contains(low, LoginFailedPhrase)
        /\ ~Contains(low, CaptchaPhrase)
        /\ ~Contains(low, CloudflarePhrase)
        /\ ~Contains(low, TwoFaPhrase)

\* The error message without the generic replacement: the stripped response.
ClassifyErrorNoGeneric(agent_final_response) ==
    IF agent_final_response # <<>> THEN Strip(agent_final_response) ELSE NoOutputMessage

\* The error message taken from the lower-cased response.
ClassifyErrorLowered(agent_final_response) ==
    LET error_message == IF agent_final_response # <<>> THEN Lower(Strip(agent_final_response)) ELSE NoOutputMessage
    IN  IF error_message = <<>> \/ NoKnownPhrase(error_message)
        THEN ExtractFailedPrefix \o Lower(Truncate(agent_final_response, ErrTruncate))
        ELSE error_message

\* An error message that is generic unless all four phrases are there.
ClassifyErrorAllPhrases(agent_final_response) ==
    LET error_message == IF agent_final_response # <<>> THEN Strip(agent_final_response) ELSE NoOutputMessage
        low == Lower(error_message)
    IN  IF \/ error_message = <<>>
           \/ ~Contains(low, LoginFailedPhrase)
           \/ ~Contains(low, CaptchaPhrase)
           \/ ~Contains(low, CloudflarePhrase)
           \/ ~Contains(low, TwoFaPhrase)
        THEN ExtractFailedPrefix \o Truncate(agent_final_response, ErrTruncate)
        ELSE error_message

\* The error message when no HTML was extracted.
ClassifyError(agent_final_response) ==
    LET error_message == IF agent_final_response # <<>> THEN Strip(agent_final_response) ELSE NoOutputMessage
    IN  IF error_message = <<>> \/ NoKnownPhrase(error_message)
        THEN ExtractFailedPrefix \o Truncate(agent_final_response, ErrTruncate)
        ELSE error_message

\* A result that looks for the failure phrases before it looks for HTML.
ProcessResultPhrasesFirst(agent_final_response) ==
    LET html_content == extract_html_from_response(agent_final_response)
    IN  IF Truthy(html_content) /\ NoKnownPhrase(agent_final_response)
        THEN [html_content |-> html_content, error_message |-> None]
        ELSE [html_content |-> html_content, error_message |-> Some(ClassifyError(agent_final_response))]

\* What the end of the stream leaves in html_content and error_message.
ProcessResult(agent_final_response) ==
    LET html_content == extract_html_from_response(agent_final_response)
    IN  IF Truthy(html_content)
        THEN [html_content |-> html_content, error_message |-> None]
        ELSE [html_content |-> html_content, error_message |-> Some(ClassifyError(agent_final_response))]

\* An exception message that leaves str(e) out.
ExceptionMessageNoDetail(e) == UnhandledPrefix

\* f"Unhandled exception during agent execution: {str(e)}"
ExceptionMessage(e) == UnhandledPrefix \o e

\* A final update that drops the record of a finished job.
FinalUpdateRemoves(jobs, job_id, html_content, error_message, t) ==
    [x \in (DOMAIN jobs) \ {job_id} |-> jobs[x]]

\* A final update that writes the result to every job that is running.
FinalUpdateAllRunning(jobs, job_id, html_content, error_message, t) ==
    [id \in DOMAIN jobs |->
        IF jobs[id].status # "running" THEN jobs[id]
        ELSE IF Truthy(error_message)
             THEN [jobs[id] EXCEPT !.completed_at = Some(t), !.status = "failed",
                                   !.error = error_message, !.html_content = None]
             ELSE [jobs[id] EXCEPT !.completed_at = Some(t), !.status = "completed",
                                   !.html_content = html_content, !.error = None]]

\* A final update that does not write the completion timestamp.
FinalUpdateNoTimestamp(jobs, job_id, html_content, error_message, t) ==
    IF job_id \in DOMAIN jobs
    THEN IF Truthy(error_message)
         THEN [jobs EXCEPT ![job_id].status = "failed",
                           ![job_id].error = error_message, ![job_id].html_content = None]
         ELSE [jobs EXCEPT ![job_id].status = "completed",
                           ![job_id].html_content = html_content, ![job_id].error = None]
    ELSE jobs

\* The final job status update.
FinalUpdate(jobs, job_id, html_content, error_message, t) ==
    IF job_id \in DOMAIN jobs
    THEN IF Truthy(error_message)
         THEN [jobs EXCEPT ![job_id].completed_at = Some(t), ![job_id].status = "failed",
                           ![job_id].error = error_message, ![job_id].html_content = None]
         ELSE [jobs EXCEPT ![job_id].completed_at = Some(t), ![job_id].status = "completed",
                           ![job_id].html_content = html_content, ![job_id].error = None]
    ELSE jobs

\* What the final update writes to the log.
FinalUpdateLog(jobs, job_id, error_message) ==
    IF job_id \in DOMAIN jobs
    THEN <<LogFinished(job_id, StatusText(IF Truthy(error_message) THEN "failed" ELSE "completed"))>>
    ELSE <<LogDisappearedAtEnd(job_id)>>

\* An except clause that records the failure and schedules the task again.
FailRetry(i, e) ==
    LET error_message == Some(ExceptionMessage(e))
    IN  /\ tasks' = [tasks EXCEPT ![i].pc = "scheduled", ![i].exc = Some(e), ![i].error_message = error_message]
        /\ scraping_jobs' = FinalUpdate(scraping_jobs, tasks[i].job_id, tasks[i].html_content, error_message, now)
        /\ logged' = <<LogException(tasks[i].job_id, e)>>
                      \o FinalUpdateLog(scraping_jobs, tasks[i].job_id, error_message)

\* The except clause followed by the final update: the task ends.
Fail(i, e) ==
    LET error_message == Some(ExceptionMessage(e))
    IN  /\ tasks' = [tasks EXCEPT ![i].pc = "done", ![i].exc = Some(e), ![i].error_message = error_message]
        /\ scraping_jobs' = FinalUpdate(scraping_jobs, tasks[i].job_id, tasks[i].html_content, error_message, now)
        /\ logged' = <<LogException(tasks[i].job_id, e)>>
                      \o FinalUpdateLog(scraping_jobs, tasks[i].job_id, error_message)

\* What the task writes to the log up to the opening of the stream.
TaskStartLog(i) ==
    <<LogStarting(tasks[i].job_id, tasks[i].url)>>
    \o (IF tasks[i].job_id \in DOMAIN scraping_jobs
        THEN (IF langsmith_client THEN <<LogTracingEnabled(tasks[i].job_id)>> ELSE <<>>)
             \o <<LogInvoking(tasks[i].job_id)>>
        ELSE <<LogDisappearedAtStart(tasks[i].job_id)>>)

\* A task that starts the stream without marking the job as running.
TaskStartNoRunning(i) ==
    /\ tasks[i].pc = "scheduled"
    /\ tasks' = [tasks EXCEPT ![i].pc = IF tasks[i].job_id \in DOMAIN scraping_jobs THEN "stream" ELSE "done"]
    /\ response' = NoResponse
    /\ logged' = TaskStartLog(i)
    /\ UNCHANGED <<scraping_jobs, now, langsmith_client, parse_in, parse_out>>

\* A task that writes an empty error text to its job when it starts.
TaskStartWritesError(i) ==
    /\ tasks[i].pc = "scheduled"
    /\ IF tasks[i].job_id \in DOMAIN scraping_jobs
       THEN /\ scraping_jobs' = [scraping_jobs EXCEPT ![tasks[i].job_id].status = "running",
                                                      ![tasks[i].job_id].error = Some(<<>>)]
            /\ tasks' = [tasks EXCEPT ![i].pc = "stream"]
       ELSE /\ tasks' = [tasks EXCEPT ![i].pc = "done"]
            /\ UNCHANGED scraping_jobs
    /\ response' = NoResponse
    /\ logged' = TaskStartLog(i)
    /\ UNCHANGED <<now, langsmith_client, parse_in, parse_out>>

\* The task starts: the job becomes running and the stream is opened, or the
\* task returns at once when its job is not in the registry.
TaskStart(i) ==
    /\ tasks[i].pc = "scheduled"
    /\ IF tasks[i].job_id \in DOMAIN scraping_jobs
       THEN /\ scraping_jobs' = [scraping_jobs EXCEPT ![tasks[i].job_id].status = "running"]
            /\ tasks' = [tasks EXCEPT ![i].pc = "stream"]
       ELSE /\ tasks' = [tasks EXCEPT ![i].pc = "done"]
            /\ UNCHANGED scraping_jobs
    /\ response' = NoResponse
    /\ logged' = TaskStartLog(i)
    /\ UNCHANGED <<now, langsmith_client, parse_in, parse_out>>

RECURSIVE TotalChunks(_)
\* The number of chunks all the streams have delivered so far.
TotalChunks(ts) == IF ts = <<>> THEN 0 ELSE Head(ts).chunks + TotalChunks(Tail(ts))

\* An iteration that takes the run identifier of every chunk that has one.
StreamChunkLastRunId(i, chunk) ==
    /\ tasks[i].pc = "stream"
    /\ TotalChunks(tasks) < MaxChunks
    /\ IF chunk.run_info.type = "NoneType"
       THEN Fail(i, AttributeErrorMessage)
       ELSE LET t == tasks[i]
                current_run_id == PyOr(chunk.run_info.run_id, chunk.run_id)
                new_run == current_run_id.truthy
                run_id == IF new_run THEN Some(current_run_id.str) ELSE t.run_id
                trace == new_run /\ langsmith_client
                current_vm_info == chunk.vm_instance
                new_vm == current_vm_info.type = "handle" /\ ~Truthy(t.vm_url)
                vm_url == IF new_vm THEN current_vm_info.url ELSE t.vm_url
                response_part == PyOr(PyOr(chunk.agent_response, chunk.output), chunk.content)
                text == IF response_part.type = "str" THEN t.agent_final_response \o response_part.str
                        ELSE t.agent_final_response
                jobs1 == IF trace /\ t.job_id \in DOMAIN scraping_jobs
                         THEN [scraping_jobs EXCEPT ![t.job_id].langsmith_trace_url = Some(TraceUrlPrefix \o run_id[1])]
                         ELSE scraping_jobs
                jobs2 == IF new_vm /\ t.job_id \in DOMAIN jobs1
                         THEN [jobs1 EXCEPT ![t.job_id].vm_url = vm_url]
                         ELSE jobs1
            IN  /\ tasks' = [tasks EXCEPT ![i].run_id = run_id, ![i].vm_url = vm_url,
                                          ![i].agent_final_response = text, ![i].chunks = t.chunks + 1,
                                          ![i].stream = Append(t.stream, chunk)]
                /\ scraping_jobs' = jobs2
                /\ logged' = (IF trace THEN <<LogRunId(run_id[1], TraceUrlPrefix \o run_id[1])>> ELSE <<>>)
                              \o (IF new_vm THEN <<LogVmUrl(vm_url[1])>> ELSE <<>>)
    /\ response' = NoResponse
    /\ UNCHANGED <<now, langsmith_client, parse_in, parse_out>>

\* An iteration that keeps the url of the handle in its local variable and
\* leaves the record as it is.
StreamChunkVmLocalOnly(i, chunk) ==
    /\ tasks[i].pc = "stream"
    /\ TotalChunks(tasks) < MaxChunks
    /\ IF chunk.run_info.type = "NoneType"
       THEN Fail(i, AttributeErrorMessage)
       ELSE LET t == tasks[i]
                current_run_id == PyOr(chunk.run_info.run_id, chunk.run_id)
                new_run == current_run_id.truthy /\ ~Truthy(t.run_id)
                run_id == IF new_run THEN Some(current_run_id.str) ELSE t.run_id
                trace == new_run /\ langsmith_client
                current_vm_info == chunk.vm_instance
                new_vm == current_vm_info.type = "handle" /\ ~Truthy(t.vm_url)
                vm_url == IF new_vm THEN current_vm_info.url ELSE t.vm_url
                response_part == PyOr(PyOr(chunk.agent_response, chunk.output), chunk.content)
                text == IF response_part.type = "str" THEN t.agent_final_response \o response_part.str
                        ELSE t.agent_final_response
                jobs1 == IF trace /\ t.job_id \in DOMAIN scraping_jobs
                         THEN [scraping_jobs EXCEPT ![t.job_id].langsmith_trace_url = Some(TraceUrlPrefix \o run_id[1])]
                         ELSE scraping_jobs
                jobs2 == jobs1
            IN  /\ tasks' = [tasks EXCEPT ![i].run_id = run_id, ![i].vm_url = vm_url,
                                          ![i].agent_final_response = text, ![i].chunks = t.chunks + 1,
                                          ![i].stream = Append(t.stream, chunk)]
                /\ scraping_jobs' = jobs2
                /\ logged' = (IF trace THEN <<LogRunId(run_id[1], TraceUrlPrefix \o run_id[1])>> ELSE <<>>)
                              \o (IF new_vm THEN <<LogVmUrl(vm_url[1])>> ELSE <<>>)
    /\ response' = NoResponse
    /\ UNCHANGED <<now, langsmith_client, parse_in, parse_out>>

\* One iteration of the async for loop.
StreamChunk(i, chunk) ==
    /\ tasks[i].pc = "stream"
    /\ TotalChunks(tasks) < MaxChunks
    /\ IF chunk.run_info.type = "NoneType"
       THEN Fail(i, AttributeErrorMessage)
       ELSE LET t == tasks[i]
                current_run_id == PyOr(chunk.run_info.run_id, chunk.run_id)
                new_run == current_run_id.truthy /\ ~Truthy(t.run_id)
                run_id == IF new_run THEN Some(current_run_id.str) ELSE t.run_id
                trace == new_run /\ langsmith_client
                current_vm_info == chunk.vm_instance
                new_vm == current_vm_info.type = "handle" /\ ~Truthy(t.vm_url)
                vm_url == IF new_vm THEN current_vm_info.url ELSE t.vm_url
                response_part == PyOr(PyOr(chunk.agent_response, chunk.output), chunk.content)
                text == IF response_part.type = "str" THEN t.agent_final_response \o response_part.str
                        ELSE t.agent_final_response
                jobs1 == IF trace /\ t.job_id \in DOMAIN scraping_jobs
                         THEN [scraping_jobs EXCEPT ![t.job_id].langsmith_trace_url = Some(TraceUrlPrefix \o run_id[1])]
                         ELSE scraping_jobs
                jobs2 == IF new_vm /\ t.job_id \in DOMAIN jobs1
                         THEN [jobs1 EXCEPT ![t.job_id].vm_url = vm_url]
                         ELSE jobs1
            IN  /\ tasks' = [tasks EXCEPT ![i].run_id = run_id, ![i].vm_url = vm_url,
                                          ![i].agent_final_response = text, ![i].chunks = t.chunks + 1,
                                          ![i].stream = Append(t.stream, chunk)]
                /\ scraping_jobs' = jobs2
                /\ logged' = (IF trace THEN <<LogRunId(run_id[1], TraceUrlPrefix \o run_id[1])>> ELSE <<>>)
                              \o (IF new_vm THEN <<LogVmUrl(vm_url[1])>> ELSE <<>>)
    /\ response' = NoResponse
    /\ UNCHANGED <<now, langsmith_client, parse_in, parse_out>>

\* What the parser writes to the log: a warning when the fenced block it
\* found does not look like HTML.
ParserLog(resp) ==
    IF FenceSearch(resp) # None /\ extract_html_from_response(resp) = None
    THEN <<LogNotValidHtml>>
    ELSE <<>>

\* An end of the stream after which the task returns without its final
\* update.
StreamEndNoUpdate(i) ==
    /\ tasks[i].pc = "stream"
    /\ LET r == ProcessResult(tasks[i].agent_final_response)
       IN  tasks' = [tasks EXCEPT ![i].pc = "done", ![i].html_content = r.html_content,
                                  ![i].error_message = r.error_message]
    /\ response' = NoResponse
    /\ logged' = <<LogStreamFinished(tasks[i].job_id, Len(tasks[i].agent_final_response))>>
    /\ UNCHANGED <<scraping_jobs, now, langsmith_client, parse_in, parse_out>>

\* The stream is exhausted: the response is parsed and the job is finished.
StreamEnd(i) ==
    /\ tasks[i].pc = "stream"
    /\ LET job_id == tasks[i].job_id
           text == tasks[i].agent_final_response
           r == ProcessResult(text)
       IN  /\ tasks' = [tasks EXCEPT ![i].pc = "done", ![i].html_content = r.html_content,
                                     ![i].error_message = r.error_message]
           /\ scraping_jobs' = FinalUpdate(scraping_jobs, job_id, r.html_content, r.error_message, now)
           /\ logged' = <<LogStreamFinished(job_id, Len(text))>>
                         \o (IF Truthy(r.html_content)
                             THEN <<LogExtracted(job_id, Len(r.html_content[1]))>>
                             ELSE ParserLog(text) \o <<LogExtractionFailed(job_id, r.error_message[1])>>)
                         \o FinalUpdateLog(scraping_jobs, job_id, r.error_message)
    /\ response' = NoResponse
    /\ UNCHANGED <<now, langsmith_client, parse_in, parse_out>>

\* An exception that is raised and left to propagate out of the task.
StreamRaiseUncaught(i, e) ==
    /\ tasks[i].pc = "stream"
    /\ tasks' = [tasks EXCEPT ![i].pc = "crashed", ![i].exc = Some(e)]
    /\ response' = NoResponse
    /\ logged' = <<>>
    /\ UNCHANGED <<scraping_jobs, now, langsmith_client, parse_in, parse_out>>

\* The agent raises when the stream is opened or at a chunk.
StreamRaise(i, e) ==
    /\ tasks[i].pc = "stream"
    /\ Fail(i, e)
    /\ response' = NoResponse
    /\ UNCHANGED <<now, langsmith_client, parse_in, parse_out>>

(***************************************************************************)
(* The service: any number of submissions and status requests, interleaved *)
(* with the steps of the background tasks.                                 *)
(***************************************************************************)
EmptyDict == [x \in {} |-> NoResponse]

\* The ids asked of the status endpoint: every key of the registry and an
\* id that is a key only once a submission has produced it.
QueryIds == (DOMAIN scraping_jobs) \cup {JobId(1, StartTime)}

TimedOut == <<"T", "i", "m", "e", "d", " ", "o", "u", "t">>

\* A clock tick that fails the jobs still running, as a timeout would.
TickTimeout ==
    /\ now < StartTime + MaxTick
    /\ now' = now + 1
    /\ scraping_jobs' = [id \in DOMAIN scraping_jobs |->
                            IF scraping_jobs[id].status = "running"
                            THEN [scraping_jobs[id] EXCEPT !.status = "failed", !.error = Some(TimedOut),
                                                           !.completed_at = Some(now + 1)]
                            ELSE scraping_jobs[id]]
    /\ response' = NoResponse
    /\ logged' = <<>>
    /\ UNCHANGED <<tasks, langsmith_client, parse_in, parse_out>>

Tick ==
    /\ now < StartTime + MaxTick
    /\ now' = now + 1
    /\ response' = NoResponse
    /\ logged' = <<>>
    /\ UNCHANGED <<scraping_jobs, tasks, langsmith_client, parse_in, parse_out>>

Init ==
    /\ scraping_jobs = EmptyDict
    /\ tasks = <<>>
    /\ now = StartTime
    /\ langsmith_client \in BOOLEAN
    /\ response = NoResponse
    /\ logged = <<>>
    /\ parse_in = <<>>
    /\ parse_out = <<>>

Next ==
    \/ \E cred \in Credentials : ScrapePage(cred)
    \/ \E job_id \in QueryIds : GetJobStatus(job_id)
    \/ \E i \in 1..Len(tasks) : TaskStart(i)
    \/ \E i \in 1..Len(tasks) : \E chunk \in Chunks : StreamChunk(i, chunk)
    \/ \E i \in 1..Len(tasks) : StreamEnd(i)
    \/ \E i \in 1..Len(tasks) : \E e \in ExceptionMessages : StreamRaise(i, e)
    \/ Tick

Spec == Init /\ [][Next]_vars

\* The step of task i that the event loop owes it once it is scheduled: its
\* start.
StartOf(i) == i <= Len(tasks) /\ TaskStart(i)

\* The step that closes the stream of task i: the stream is exhausted or
\* raises, and the task runs to its end.
CloseOf(i) ==
    /\ i <= Len(tasks)
    /\ ((\E e \in ExceptionMessages : StreamRaise(i, e)) \/ StreamEnd(i))

\* The service under fair scheduling of the background tasks: a scheduled
\* task is started (the event loop runs every task that is ready), and every
\* agent stream that is open ends or raises at some time.
FairSpec ==
    /\ Spec
    /\ \A i \in 1..MaxJobs : WF_vars(StartOf(i)) /\ WF_vars(CloseOf(i))

(***************************************************************************)
(* One submission followed through its agent stream, with the request      *)
(* bodies of the tests and every shape of chunk the loop distinguishes.    *)
(***************************************************************************)
NotAUrl == <<"n", "o", "t", "_", "a", "_", "u", "r", "l">>

TestUser == <<"t", "e", "s", "t", "u", "s", "e", "r">>

TestPass == <<"t", "e", "s", "t", "p", "a", "s", "s">>

\* The request bodies of test_end_to_end_flow, test_malformed_url and
\* test_empty_credentials.
SubmitBodies ==
    {[url |-> ExampleUrl, username |-> TestUser, password |-> TestPass],
     [url |-> NotAUrl, username |-> TestUser, password |-> TestPass],
     [url |-> ExampleUrl, username |-> <<>>, password |-> <<>>]}

VmUrl2 == <<"h", "t", "t", "p", "s", ":", "/", "/", "v", "m", ".", "e", "x", "a", "m", "p", "l", "e", "/", "2">>

RunId2 == <<"r", "u", "n", "-", "2">>

TextA == <<"A">>

TextB == <<"B">>

\* Text under one key or several, values that are no text, handles with a
\* url, with an empty url and without one, run identifiers under either key.
AgentChunks ==
    {TextChunk(ExampleText),
     TextChunk(CaptchaText),
     [EmptyChunk EXCEPT !.output = PyStr(TextB)],
     [EmptyChunk EXCEPT !.agent_response = PyStr(<<>>), !.content = PyStr(TextB)],
     [EmptyChunk EXCEPT !.agent_response = PyStr(TextA), !.output = PyStr(TextB)],
     [EmptyChunk EXCEPT !.agent_response = PyObj(TRUE), !.output = PyStr(TextB)],
     [EmptyChunk EXCEPT !.vm_instance = VmHandle(VmUrl)],
     [EmptyChunk EXCEPT !.vm_instance = VmHandle(VmUrl2)],
     [EmptyChunk EXCEPT !.vm_instance = VmHandle(<<>>)],
     [EmptyChunk EXCEPT !.vm_instance = VmNoUrl],
     [EmptyChunk EXCEPT !.run_info = RunInfo(PyStr(RunId))],
     [EmptyChunk EXCEPT !.run_id = PyStr(RunId2)],
     [EmptyChunk EXCEPT !.run_info = RunInfo(PyStr(<<>>)), !.run_id = PyStr(RunId2)],
     [EmptyChunk EXCEPT !.run_info = RunInfo(PyStr(RunId)), !.run_id = PyStr(RunId2)],
     [EmptyChunk EXCEPT !.run_info = BadRunInfo]}

\* The first submission to the service.
SubmitOne(cred) ==
    /\ tasks = <<>>
    /\ ScrapePage(cred)

NextAgent ==
    \/ \E cred \in SubmitBodies : SubmitOne(cred)
    \/ \E i \in 1..Len(tasks) : TaskStart(i)
    \/ \E i \in 1..Len(tasks) : \E chunk \in AgentChunks : StreamChunk(i, chunk)
    \/ \E i \in 1..Len(tasks) : StreamEnd(i)
    \/ \E i \in 1..Len(tasks) : \E e \in ExceptionMessages : StreamRaise(i, e)

SpecAgent == Init /\ [][NextAgent]_vars

(***************************************************************************)
(* The parser alone, applied to every text built from a few pieces.        *)
(***************************************************************************)
ParserPieces ==
    {Fence, <<"h", "t", "m", "l">>, <<"H", "T", "M", "L">>, <<" ">>, <<"<", "p", ">">>, <<"x">>,
     <<"<", "h", "t", "m", "l", ">">>, HtmlClose, DoctypeTag}

RECURSIVE PieceTexts(_)
PieceTexts(n) ==
    IF n = 0 THEN {<<>>}
    ELSE LET shorter == PieceTexts(n - 1)
         IN  shorter \cup {t \o p : t \in shorter, p \in ParserPieces}

ParserInputs ==
    PieceTexts(MaxPieces)
    \cup Fragments
    \cup {NotHtmlBlock}
    \cup {<<"s", "e", "e", ":", "\n">> \o FenceTag \o <<"\n", " ", "<", "a", ">", " ", "<", "/", "a", ">", "\t", "\n">> \o Fence \o <<" ", "e", "n", "d">>,
          <<"\n">> \o DoctypeTag \o <<">", "<", "p", ">", "\n">>,
          <<"<", "b", "o", "d", "y", ">", "h", "i", "<", "/", "b", "o", "d", "y", ">">>}

InitParser ==
    /\ scraping_jobs = EmptyDict
    /\ tasks = <<>>
    /\ now = StartTime
    /\ langsmith_client = FALSE
    /\ response = NoResponse
    /\ logged = <<>>
    /\ parse_in \in ParserInputs
    /\ parse_out = <<>>

ExtractCall ==
    /\ parse_out = <<>>
    /\ parse_out' = <<extract_html_from_response(parse_in)>>
    /\ logged' = ParserLog(parse_in)
    /\ UNCHANGED <<scraping_jobs, tasks, now, langsmith_client, response, parse_in>>

NextParser == ExtractCall

SpecParser == InitParser /\ [][NextParser]_vars

(***************************************************************************)
(* The end of the stream alone (parsing and error classification), applied *)
(* to every text built from a few words.                                   *)
(***************************************************************************)
MaxWords == 3

TwoFactorWords == <<"T", "w", "o", "-", "f", "a", "c", "t", "o", "r", " ", "a", "u", "t", "h", "e", "n", "t", "i", "c", "a", "t", "i", "o", "n", " ", "r", "e", "q", "u", "i", "r", "e", "d">>

IncorrectWords == <<"I", "n", "c", "o", "r", "r", "e", "c", "t", " ", "u", "s", "e", "r", "n", "a", "m", "e", " ", "o", "r", " ", "p", "a", "s", "s", "w", "o", "r", "d">>

ClassifyPieces ==
    {<<"C", "A", "P", "T", "C", "H", "A">>, <<"C", "l", "o", "u", "d", "f", "l", "a", "r", "e">>,
     <<"2", "F", "A">>, <<"L", "o", "g", "i", "n", " ", "f", "a", "i", "l", "e", "d">>,
     TwoFactorWords, IncorrectWords, <<" ">>, <<"\n">>, <<":">>, <<"o", "k">>}

RECURSIVE WordTexts(_)
WordTexts(n) ==
    IF n = 0 THEN {<<>>}
    ELSE LET shorter == WordTexts(n - 1)
         IN  shorter \cup {t \o p : t \in shorter, p \in ClassifyPieces}

ClassifyInputs == WordTexts(MaxWords) \cup Fragments \cup {NotHtmlBlock, CaptchaText \o NotHtmlBlock}

InitClassify ==
    /\ scraping_jobs = EmptyDict
    /\ tasks = <<>>
    /\ now = StartTime
    /\ langsmith_client = FALSE
    /\ response = NoResponse
    /\ logged = <<>>
    /\ parse_in \in ClassifyInputs
    /\ parse_out = <<>>

ClassifyCall ==
    /\ parse_out = <<>>
    /\ parse_out' = <<ProcessResult(parse_in)>>
    /\ logged' = ParserLog(parse_in)
    /\ UNCHANGED <<scraping_jobs, tasks, now, langsmith_client, response, parse_in>>

NextClassify == ClassifyCall

SpecClassify == InitClassify /\ [][NextClassify]_vars

(***************************************************************************)
(* Properties of the service (checked under Spec).                         *)
(***************************************************************************)
Job(i) == scraping_jobs[tasks[i].job_id]

Finished(i) == tasks[i].pc = "done" /\ tasks[i].job_id \in DOMAIN scraping_jobs

StatusSteps == {<<"pending", "running">>, <<"running", "completed">>, <<"running", "failed">>}

\* C1: the status of every job changes only along pending -> running ->
\* completed or pending -> running -> failed: no step moves it back, skips
\* running, or turns one terminal status into the other.
StatusMonotonic ==
    [][\A id \in DOMAIN scraping_jobs :
         id \in DOMAIN scraping_jobs' =>
           \/ scraping_jobs'[id].status = scraping_jobs[id].status
           \/ <<scraping_jobs[id].status, scraping_jobs'[id].status>> \in StatusSteps]_vars

\* Both terminal statuses have been reached, each through running.
StatusMonotonicWitness ==
    /\ Len(tasks) = 2
    /\ Finished(1) /\ Finished(2)
    /\ Job(1).status = "completed"
    /\ Job(2).status = "failed"

\* C2: a completed job has html_content set and error null; a failed job has
\* error set and html_content null.
ResultExclusive ==
    \A id \in DOMAIN scraping_jobs :
        LET job == scraping_jobs[id]
        IN  /\ job.status = "completed" => job.html_content # None /\ job.error = None
            /\ job.status = "failed" => job.error # None /\ job.html_content = None

\* One job failed on an exception raised after text with an HTML block had
\* been accumulated, another on a response of whitespace only.
ResultExclusiveWitness ==
    \E i, j \in 1..Len(tasks) :
        /\ Finished(i) /\ Finished(j)
        /\ tasks[i].exc # None
        /\ extract_html_from_response(tasks[i].agent_final_response) # None
        /\ Job(i).status = "failed"
        /\ tasks[j].exc = None
        /\ tasks[j].agent_final_response # <<>>
        /\ Strip(tasks[j].agent_final_response) = <<>>
        /\ Job(j).status = "failed"

\* C3: the submissions accepted so far received pairwise different job ids,
\* each id returned is the one its record is stored under, and no submission
\* replaced a record: there are as many records as submissions.
UniqueJobIds ==
    /\ \A i, j \in 1..Len(tasks) : i # j => tasks[i].job_id # tasks[j].job_id
    /\ Cardinality(DOMAIN scraping_jobs) = Len(tasks)
    /\ \A i \in 1..Len(tasks) : tasks[i].job_id \in DOMAIN scraping_jobs
    /\ response.op = "scrape_page" => response.body.job_id = tasks[Len(tasks)].job_id

\* Two submissions in the same clock second, the second one made while the
\* first job was running.
UniqueJobIdsWitness ==
    /\ Len(tasks) = 2
    /\ response.op = "scrape_page"
    /\ tasks[1].job_id \in DOMAIN scraping_jobs /\ tasks[2].job_id \in DOMAIN scraping_jobs
    /\ Job(1).started_at = Job(2).started_at
    /\ Job(1).status = "running"

\* C4: no step removes a record from the registry; the id a submission
\* returns is a key of the registry at once, with status pending; and every
\* status request for a key is answered 200 with the record stored under it.
AlwaysResolvable ==
    [][/\ \A id \in DOMAIN scraping_jobs : id \in DOMAIN scraping_jobs'
       /\ response'.op = "scrape_page" =>
            /\ response'.body.job_id \in DOMAIN scraping_jobs'
            /\ scraping_jobs'[response'.body.job_id].status = "pending"
       /\ (response'.op = "get_job_status" /\ response'.req \in DOMAIN scraping_jobs) =>
            /\ response'.code = 200
            /\ response'.body = scraping_jobs[response'.req]
            /\ response'.body.job_id = response'.req
            /\ response'.body.status \in {"pending", "running", "completed", "failed"}]_vars

\* A status request answered with the record of a job that has finished.
AlwaysResolvableWitness ==
    /\ response.op = "get_job_status"
    /\ response.code = 200
    /\ response.req \in DOMAIN scraping_jobs
    /\ response.body.status \in {"completed", "failed"}

\* C5: a status request for an id that is no key of the registry is answered
\* 404 "Job not found" and changes neither the registry nor the tasks.
UnknownIdNotFound ==
    [][(response'.op = "get_job_status" /\ response'.req \notin DOMAIN scraping_jobs) =>
         /\ response'.code = 404
         /\ response'.body = [detail |-> JobNotFound]
         /\ scraping_jobs' = scraping_jobs
         /\ tasks' = tasks]_vars

\* A 404 answered while the registry holds a finished job.
UnknownIdNotFoundWitness ==
    /\ response.op = "get_job_status"
    /\ response.code = 404
    /\ response.req \notin DOMAIN scraping_jobs
    /\ \E id \in DOMAIN scraping_jobs : scraping_jobs[id].status \in {"completed", "failed"}

\* C6: a task whose stream raised has returned normally, and its job is
\* failed with an error that contains str(e).
ExceptionFailsJob ==
    \A i \in 1..Len(tasks) :
        tasks[i].exc # None =>
            /\ tasks[i].pc = "done"
            /\ tasks[i].job_id \in DOMAIN scraping_jobs =>
                 /\ Job(i).status = "failed"
                 /\ Job(i).error # None
                 /\ Contains(Job(i).error[1], tasks[i].exc[1])

\* One stream raised when it was opened, another after a chunk.
ExceptionFailsJobWitness ==
    \E i, j \in 1..Len(tasks) :
        /\ Finished(i) /\ Finished(j)
        /\ tasks[i].exc = Some(TestError) /\ tasks[i].chunks = 0
        /\ tasks[j].exc = Some(TestError) /\ tasks[j].chunks > 0
        /\ Job(i).status = "failed" /\ Job(j).status = "failed"

\* The places of s where the word captcha stands, in any letter case.
CaptchaAt(s) == {k \in 1..Len(s) : StartsWithAt(Lower(s), CaptchaPhrase, k)}

\* C7: when a stream ends without an exception, the parser extracts nothing
\* and the text holds the word CAPTCHA in any letter case, the job is failed
\* and its error holds every such word as the response spelled it.
CaptchaFailsJob ==
    \A i \in 1..Len(tasks) :
        (/\ Finished(i)
         /\ tasks[i].exc = None
         /\ tasks[i].html_content = None
         /\ CaptchaAt(tasks[i].agent_final_response) # {}) =>
            /\ Job(i).status = "failed"
            /\ Job(i).error # None
            /\ \A k \in CaptchaAt(tasks[i].agent_final_response) :
                 Contains(Job(i).error[1], SubSeq(tasks[i].agent_final_response, k, k + Len(CaptchaPhrase) - 1))

\* A job failed on a response that spells the word Captcha, with whitespace
\* around it.
CaptchaFailsJobWitness ==
    \E i \in 1..Len(tasks) :
        /\ Finished(i)
        /\ tasks[i].exc = None
        /\ tasks[i].html_content = None
        /\ Contains(tasks[i].agent_final_response, CaptchaMixed)
        /\ Job(i).status = "failed"

\* C8: when a stream ends without an exception and the parser returns HTML
\* for the accumulated text, the job is completed with exactly that HTML,
\* failure phrase in the text or not; for the example text the HTML is
\* <html><body>hi</body></html>.
HtmlCompletesJob ==
    \A i \in 1..Len(tasks) :
        (/\ Finished(i)
         /\ tasks[i].exc = None
         /\ extract_html_from_response(tasks[i].agent_final_response) # None) =>
            /\ Job(i).status = "completed"
            /\ Job(i).html_content = extract_html_from_response(tasks[i].agent_final_response)
            /\ tasks[i].agent_final_response = ExampleText => Job(i).html_content = Some(ExampleHtml)

\* The example: a virtual-machine handle, then the example text.
HtmlCompletesJobWitness ==
    \E i \in 1..Len(tasks) :
        /\ Finished(i)
        /\ tasks[i].exc = None
        /\ tasks[i].vm_url = Some(VmUrl)
        /\ tasks[i].agent_final_response = ExampleText
        /\ Job(i).status = "completed"
        /\ Job(i).html_content = Some(ExampleHtml)

\* What the stream of a finished task alone determines: the status, the
\* html_content and the error of its job.
OwnResult(t) ==
    LET r == IF t.exc # None
             THEN [html_content |-> None, error_message |-> Some(ExceptionMessage(t.exc[1]))]
             ELSE ProcessResult(t.agent_final_response)
    IN  IF Truthy(r.error_message)
        THEN [status |-> "failed", html_content |-> None, error |-> r.error_message]
        ELSE [status |-> "completed", html_content |-> r.html_content, error |-> None]

\* C12: a step that changes the record of a job is a step of the task of
\* that job and changes no other record and no other task; and the status,
\* html_content and error of every finished job are, after every write to
\* the registry, those its own stream determines, whatever the other jobs
\* did in between.
OwnRecordOnly ==
    [][/\ \A id \in DOMAIN scraping_jobs :
            (id \in DOMAIN scraping_jobs' /\ scraping_jobs'[id] # scraping_jobs[id]) =>
                \E i \in 1..Len(tasks) :
                    /\ tasks[i].job_id = id
                    /\ tasks'[i] # tasks[i]
                    /\ \A k \in 1..Len(tasks) : k # i => tasks'[k] = tasks[k]
                    /\ \A other \in DOMAIN scraping_jobs :
                         other # id => (other \in DOMAIN scraping_jobs' /\ scraping_jobs'[other] = scraping_jobs[other])
       /\ scraping_jobs' # scraping_jobs =>
            \A i \in 1..Len(tasks') :
                (tasks'[i].pc = "done" /\ tasks'[i].job_id \in DOMAIN scraping_jobs') =>
                    LET job == scraping_jobs'[tasks'[i].job_id]
                        own == OwnResult(tasks'[i])
                    IN  /\ job.status = own.status
                        /\ job.html_content = own.html_content
                        /\ job.error = own.error]_vars

\* Two jobs in flight together: the first failed on an exception while the
\* second was streaming, and the second completed later with its HTML.
OwnRecordOnlyWitness ==
    /\ Len(tasks) = 2
    /\ Finished(1) /\ Finished(2)
    /\ tasks[1].exc # None /\ Job(1).status = "failed"
    /\ tasks[2].chunks > 0 /\ Job(2).status = "completed"
    /\ Job(2).started_at = Job(1).completed_at[1]
    /\ Job(1).completed_at[1] < Job(2).completed_at[1]

\* C13: no step changes any field of the record of a job that is completed
\* or failed; and the agent is called at most once for a job: each job has
\* one task, a task that has opened its stream never goes back to open it
\* again, and a task that has ended stays as it ended.
TerminalIsFinal ==
    [][/\ \A id \in DOMAIN scraping_jobs :
            scraping_jobs[id].status \in {"completed", "failed"} =>
                (id \in DOMAIN scraping_jobs' /\ scraping_jobs'[id] = scraping_jobs[id])
       /\ \A i \in 1..Len(tasks) :
            /\ i <= Len(tasks')
            /\ tasks[i].pc # "scheduled" => tasks'[i].pc # "scheduled"
            /\ tasks[i].pc = "done" => tasks'[i] = tasks[i]
       /\ \A i, j \in 1..Len(tasks') : i # j => tasks'[i].job_id # tasks'[j].job_id]_vars

\* A job failed, the clock moved on, and a job submitted afterwards is
\* streaming: the failed record is as the failure left it.
TerminalIsFinalWitness ==
    /\ Len(tasks) = 2
    /\ Finished(1) /\ Job(1).status = "failed"
    /\ Job(1).completed_at[1] < Job(2).started_at
    /\ tasks[2].pc = "stream" /\ tasks[2].chunks > 0
    /\ Job(2).status = "running"

\* C14: while the stream of a task is open (it has neither ended nor
\* raised) its job is running with html_content, error and completed_at
\* null, however much time passes and whatever the other jobs and requests
\* do; a job becomes completed or failed only in the step in which its
\* own stream ends or raises.
OpenStreamStaysRunning ==
    [][\A i \in 1..Len(tasks') :
         tasks'[i].job_id \in DOMAIN scraping_jobs' =>
            LET job == scraping_jobs'[tasks'[i].job_id]
            IN  /\ tasks'[i].pc = "stream" =>
                     /\ job.status = "running"
                     /\ job.html_content = None
                     /\ job.error = None
                     /\ job.completed_at = None
                /\ (/\ job.status \in {"completed", "failed"}
                    /\ i <= Len(tasks)
                    /\ scraping_jobs[tasks[i].job_id].status \notin {"completed", "failed"}) =>
                     (tasks[i].pc = "stream" /\ tasks'[i].pc = "done")]_vars

\* A stream that has been open since before the clock ticked, while a job
\* submitted later has already finished.
OpenStreamStaysRunningWitness ==
    /\ Len(tasks) = 2
    /\ tasks[1].pc = "stream"
    /\ Job(1).status = "running"
    /\ Job(1).started_at < now
    /\ Job(1).started_at < Job(2).started_at
    /\ Finished(2)
    /\ Job(2).status \in {"completed", "failed"}

\* C21: while the stream of a task is open the record of its job holds
\* what the chunks consumed so far have given: status running, the vm_url
\* the task has taken from a handle and the trace URL of the run identifier
\* it has taken (when tracing is configured); a status request answers with
\* that record; and the step that ends the task, and every step after it,
\* leaves vm_url and the trace URL of the record as they were.
VisibleBeforeEnd ==
    [][\A i \in 1..Len(tasks') :
         tasks'[i].job_id \in DOMAIN scraping_jobs' =>
            LET t == tasks'[i]
                job == scraping_jobs'[t.job_id]
            IN  /\ t.pc = "stream" =>
                     /\ job.status = "running"
                     /\ job.vm_url = t.vm_url
                     /\ job.langsmith_trace_url =
                            IF langsmith_client /\ Truthy(t.run_id)
                            THEN Some(TraceUrlPrefix \o t.run_id[1])
                            ELSE None
                /\ (response'.op = "get_job_status" /\ response'.req = t.job_id) =>
                     /\ response'.code = 200
                     /\ response'.body = job
                /\ (i <= Len(tasks) /\ tasks[i].pc \in {"stream", "done"} /\ t.pc = "done") =>
                     /\ job.vm_url = scraping_jobs[t.job_id].vm_url
                     /\ job.langsmith_trace_url = scraping_jobs[t.job_id].langsmith_trace_url]_vars

\* A status request answered while the stream is open, after a chunk with a
\* handle and a chunk with a run identifier: running, with both URLs.
VisibleBeforeEndWitness ==
    \E i \in 1..Len(tasks) :
        /\ tasks[i].pc = "stream"
        /\ response.op = "get_job_status"
        /\ response.req = tasks[i].job_id
        /\ response.body.status = "running"
        /\ response.body.vm_url = Some(VmUrl)
        /\ response.body.langsmith_trace_url = Some(TraceUrlPrefix \o RunId)
        /\ response.body.completed_at = None

\* C22: a step that answers a submission adds one record, stored under the
\* id it returns and pending, and one task, scheduled for that id; no other
\* step adds a record or a task; and in every state each task is the only
\* task of its job id and each record has a task.
OneRecordOneTask ==
    [][/\ IF response'.op = "scrape_page"
          THEN /\ DOMAIN scraping_jobs' = (DOMAIN scraping_jobs) \cup {response'.body.job_id}
               /\ response'.body.job_id \notin DOMAIN scraping_jobs
               /\ scraping_jobs'[response'.body.job_id].status = "pending"
               /\ \A id \in DOMAIN scraping_jobs : scraping_jobs'[id] = scraping_jobs[id]
               /\ Len(tasks') = Len(tasks) + 1
               /\ SubSeq(tasks', 1, Len(tasks)) = tasks
               /\ tasks'[Len(tasks')].job_id = response'.body.job_id
               /\ tasks'[Len(tasks')].pc = "scheduled"
          ELSE /\ DOMAIN scraping_jobs' = DOMAIN scraping_jobs
               /\ Len(tasks') = Len(tasks)
       /\ \A i, j \in 1..Len(tasks') : i # j => tasks'[i].job_id # tasks'[j].job_id
       /\ {tasks'[i].job_id : i \in 1..Len(tasks')} = DOMAIN scraping_jobs']_vars

\* The answer to a second submission, made after the task of the first had
\* ended: two records, two tasks, the new ones pending and scheduled.
OneRecordOneTaskWitness ==
    /\ response.op = "scrape_page"
    /\ Len(tasks) = 2
    /\ Finished(1)
    /\ tasks[2].pc = "scheduled"
    /\ tasks[2].job_id = response.body.job_id
    /\ Job(2).status = "pending"

\* C24: in every state a job has a completion timestamp exactly when its
\* status is completed or failed, and its job_id field is the key it is stored
\* under; started_at and job_id are set when the record is created (started_at
\* to the time of the submission) and no later step changes them.
TimestampsAndIdentity ==
    [][/\ \A id \in DOMAIN scraping_jobs' :
             /\ scraping_jobs'[id].job_id = id
             /\ scraping_jobs'[id].completed_at # None <=> scraping_jobs'[id].status \in {"completed", "failed"}
             /\ scraping_jobs'[id].started_at \in Times
             /\ id \notin DOMAIN scraping_jobs =>
                    /\ scraping_jobs'[id].started_at = now
                    /\ scraping_jobs'[id].completed_at = None
       /\ \A id \in DOMAIN scraping_jobs :
             /\ id \in DOMAIN scraping_jobs'
             /\ scraping_jobs'[id].job_id = scraping_jobs[id].job_id
             /\ scraping_jobs'[id].started_at = scraping_jobs[id].started_at
             /\ scraping_jobs[id].completed_at # None =>
                    scraping_jobs'[id].completed_at = scraping_jobs[id].completed_at]_vars

\* A job has finished later than it started, with its start time and its id
\* as they were set at creation, while another job is still pending without a
\* completion timestamp.
TimestampsAndIdentityWitness ==
    /\ Len(tasks) = 2
    /\ Finished(1)
    /\ Job(1).status \in {"completed", "failed"}
    /\ Job(1).job_id = tasks[1].job_id
    /\ Job(1).started_at = StartTime
    /\ Job(1).completed_at = Some(StartTime + 1)
    /\ tasks[2].pc = "scheduled"
    /\ Job(2).status = "pending"
    /\ Job(2).completed_at = None

\* C25: a job that is pending or running has neither html_content nor error:
\* a step that writes either field is the step that moves the job from
\* running to completed or failed, and a status request never returns a
\* pending or running job with html_content or error set.
NoResultBeforeTerminal ==
    [][/\ \A id \in DOMAIN scraping_jobs' :
             scraping_jobs'[id].status \in {"pending", "running"} =>
                 /\ scraping_jobs'[id].html_content = None
                 /\ scraping_jobs'[id].error = None
       /\ \A id \in DOMAIN scraping_jobs :
             (/\ id \in DOMAIN scraping_jobs'
              /\ \/ scraping_jobs'[id].html_content # scraping_jobs[id].html_content
                 \/ scraping_jobs'[id].error # scraping_jobs[id].error) =>
                 /\ scraping_jobs[id].status = "running"
                 /\ scraping_jobs'[id].status \in {"completed", "failed"}
       /\ (/\ response'.op = "get_job_status"
           /\ response'.code = 200
           /\ response'.body.status \in {"pending", "running"}) =>
                 /\ response'.body.html_content = None
                 /\ response'.body.error = None]_vars

\* A status request returns a running job, without result, whose task has
\* already accumulated text of the agent, while another job has finished
\* with a result.
NoResultBeforeTerminalWitness ==
    /\ Len(tasks) = 2
    /\ Finished(1)
    /\ Job(1).html_content # None \/ Job(1).error # None
    /\ tasks[2].pc = "stream"
    /\ Len(tasks[2].agent_final_response) > 0
    /\ response.op = "get_job_status"
    /\ response.req = tasks[2].job_id
    /\ response.code = 200
    /\ response.body.status = "running"
    /\ response.body.html_content = None
    /\ response.body.error = None

\* The records that the two "disappeared" branches of a task write to the log.
DisappearedRecords ==
    {LogDisappearedAtStart(tasks[i].job_id) : i \in 1..Len(tasks)}
    \cup {LogDisappearedAtEnd(tasks[i].job_id) : i \in 1..Len(tasks)}

\* C26: the job id of every scheduled task is a key of the registry when the
\* task starts, at each of its chunks and at its final update, so neither
\* "disappeared" branch is taken: a task that starts marks its job running
\* and opens the stream, a task that ends writes its final update, and no
\* step logs that a job disappeared.
JobNeverDisappears ==
    [][/\ \A i \in 1..Len(tasks) :
             /\ tasks[i].job_id \in DOMAIN scraping_jobs
             /\ tasks'[i].job_id \in DOMAIN scraping_jobs'
             /\ (tasks[i].pc = "scheduled" /\ tasks'[i].pc # "scheduled") =>
                    /\ tasks'[i].pc = "stream"
                    /\ scraping_jobs'[tasks[i].job_id].status = "running"
             /\ (tasks[i].pc # "done" /\ tasks'[i].pc = "done") =>
                    /\ tasks[i].pc = "stream"
                    /\ scraping_jobs'[tasks[i].job_id].status \in {"completed", "failed"}
                    /\ scraping_jobs'[tasks[i].job_id].completed_at = Some(now)
       /\ \A k \in 1..Len(logged') : logged'[k] \notin DisappearedRecords]_vars

\* A task has started, consumed a chunk and just written its final update,
\* while the other task has started and waits on its stream.
JobNeverDisappearsWitness ==
    /\ Len(tasks) = 2
    /\ Finished(1)
    /\ tasks[1].chunks > 0
    /\ \E k \in 1..Len(logged) : logged[k] = LogFinished(tasks[1].job_id, StatusText(Job(1).status))
    /\ tasks[2].pc = "stream"
    /\ Job(2).status = "running"

(***************************************************************************)
(* Liveness of the service (checked under FairSpec).                       *)
(***************************************************************************)
\* C23: under fair scheduling, every job that has been submitted and whose
\* stream ends or raises at some time reaches the status completed or
\* failed: none stays pending or running forever.
EveryJobFinishes ==
    \A i \in 1..MaxJobs :
        (i <= Len(tasks)) ~>
            (i <= Len(tasks) /\ tasks[i].job_id \in DOMAIN scraping_jobs /\ Job(i).status \in {"completed", "failed"})

\* Two jobs submitted one after the other have both finished, the one that
\* was submitted first after the other.
EveryJobFinishesWitness ==
    /\ Len(tasks) = 2
    /\ Finished(1) /\ Finished(2)
    /\ Job(1).status \in {"completed", "failed"}
    /\ Job(2).status \in {"completed", "failed"}
    /\ Job(2).completed_at[1] < Job(1).completed_at[1]

(***************************************************************************)
(* Properties of the end of the stream (checked under SpecClassify).       *)
(***************************************************************************)
\* The text holds the phrase, in any letter case.
Mentions(text, phrase) == \E k \in 1..Len(text) : StartsWithAt(Lower(text), phrase, k)

\* The four failure phrases as the specification names them: CAPTCHA,
\* Cloudflare, two-factor, incorrect credentials.
NamedPhrases ==
    {CaptchaPhrase, CloudflarePhrase, <<"t", "w", "o", "-", "f", "a", "c", "t", "o", "r">>, <<"i", "n", "c", "o", "r", "r", "e", "c", "t">>}

\* The four substrings the code looks for.
KnownPhrases == {LoginFailedPhrase, CaptchaPhrase, CloudflarePhrase, TwoFaPhrase}

\* The generic message: could not extract HTML.
IsGeneric(error) == StartsWith(error, ExtractFailedPrefix)

\* The statement of C17 as the specification words it: without extractable
\* HTML the error is a specific message whenever the text mentions CAPTCHA,
\* Cloudflare, two-factor or incorrect credentials, and the generic message
\* only when it mentions none of them.
NamedPhraseGetsSpecificError ==
    (parse_out # <<>> /\ ~Truthy(parse_out[1].html_content)) =>
        /\ parse_out[1].error_message # None
        /\ (\E ph \in NamedPhrases : Mentions(parse_in, ph)) => ~IsGeneric(parse_out[1].error_message[1])

\* C17: without extractable HTML the error is the text of the agent,
\* trimmed, when the text holds one of the substrings login failed, captcha,
\* cloudflare and 2fa in any letter case; otherwise, an empty text or one of
\* whitespace only included, it is the generic message followed by the first
\* 500 characters of the text.
KnownPhraseGetsSpecificError ==
    (parse_out # <<>> /\ ~Truthy(parse_out[1].html_content)) =>
        parse_out[1].error_message =
            IF \E ph \in KnownPhrases : Mentions(parse_in, ph)
            THEN Some(Strip(parse_in))
            ELSE Some(ExtractFailedPrefix \o Truncate(parse_in, ErrTruncate))

\* A text that names 2FA and no other phrase, with whitespace to trim: the
\* error is that text, trimmed.
KnownPhraseGetsSpecificErrorWitness ==
    /\ parse_out # <<>>
    /\ ~Truthy(parse_out[1].html_content)
    /\ Mentions(parse_in, TwoFaPhrase)
    /\ \A ph \in KnownPhrases \ {TwoFaPhrase} : ~Mentions(parse_in, ph)
    /\ Strip(parse_in) # parse_in
    /\ parse_out[1].error_message = Some(Strip(parse_in))

(***************************************************************************)
(* Properties of one submission and its stream (checked under SpecAgent).  *)
(***************************************************************************)
\* C11: every submission whose url, username and password are strings, a
\* malformed url and empty credentials included, is answered with HTTP
\* status 200 and the id of a job of the registry.
SubmitAnswers200 ==
    response.op = "scrape_page" =>
        /\ response.code = 200
        /\ response.body.job_id \in DOMAIN scraping_jobs

\* The credentials a submission carried, those that are not empty.
Submitted(t) == {c \in {t.url, t.username, t.password} : c # <<>>}

\* The text fields of a job record.
RecordTexts(job) ==
    {job.job_id} \cup {f[1] : f \in {job.vm_url, job.html_content, job.error, job.langsmith_trace_url} \ {None}}

\* C15: no log record written by the service holds the url, the username
\* or the password of a submission in cleartext, and no field of the job
\* record holds one of them.
CredentialsNotExposed ==
    \A i \in 1..Len(tasks) :
        \A c \in Submitted(tasks[i]) :
            /\ \A k \in 1..Len(logged) : ~Contains(logged[k].msg, c)
            /\ tasks[i].job_id \in DOMAIN scraping_jobs =>
                 \A text \in RecordTexts(Job(i)) : ~Contains(text, c)

\* The text a chunk carries: every string among its values under the keys
\* agent_response, output and content.
ChunkText(chunk) ==
    (IF chunk.agent_response.type = "str" THEN chunk.agent_response.str ELSE <<>>)
    \o (IF chunk.output.type = "str" THEN chunk.output.str ELSE <<>>)
    \o (IF chunk.content.type = "str" THEN chunk.content.str ELSE <<>>)

RECURSIVE StreamText(_)
\* The texts of the chunks of a stream, concatenated in arrival order.
StreamText(stream) ==
    IF stream = <<>> THEN <<>> ELSE ChunkText(Head(stream)) \o StreamText(Tail(stream))

\* C18: the text handed to the parser when the stream ends is the
\* concatenation, in arrival order, of every string carried by every chunk
\* of the stream under the keys agent_response, output and content.
AllFragmentsAccumulated ==
    \A i \in 1..Len(tasks) :
        (tasks[i].pc = "done" /\ tasks[i].exc = None) =>
            tasks[i].agent_final_response = StreamText(tasks[i].stream)

RECURSIVE FirstHandle(_)
\* The first virtual-machine handle of a stream (NoVm if there is none): a
\* handle is any object under the key vm_instance, with a url or without.
FirstHandle(stream) ==
    IF stream = <<>> THEN NoVm
    ELSE IF Head(stream).vm_instance.type # "NoneType" THEN Head(stream).vm_instance
    ELSE FirstHandle(Tail(stream))

\* C19: the vm_url of a job is the url of the first virtual-machine handle
\* of its stream (null while no handle has appeared, and when that handle
\* has no url), whatever handles come later.
FirstHandleWins ==
    \A i \in 1..Len(tasks) :
        (tasks[i].job_id \in DOMAIN scraping_jobs /\ tasks[i].exc = None) =>
            Job(i).vm_url = FirstHandle(tasks[i].stream).url

\* The run identifier a chunk carries: the one under run_info, else the one
\* under run_id; an empty identifier is none.
ChunkRunId(chunk) ==
    IF chunk.run_info.run_id.type = "str" /\ chunk.run_info.run_id.str # <<>>
    THEN Some(chunk.run_info.run_id.str)
    ELSE IF chunk.run_id.type = "str" /\ chunk.run_id.str # <<>>
         THEN Some(chunk.run_id.str)
         ELSE None

RECURSIVE FirstRunId(_)
\* The first run identifier of a stream (None if there is none).
FirstRunId(stream) ==
    IF stream = <<>> THEN None
    ELSE IF ChunkRunId(Head(stream)) # None THEN ChunkRunId(Head(stream))
    ELSE FirstRunId(Tail(stream))

\* C20: when tracing is configured the trace URL of a job is null until a
\* run identifier appears in its stream and from then on the URL built from
\* the first identifier, whatever identifiers follow; when tracing is not
\* configured it is null in every state.
FirstRunIdWins ==
    \A i \in 1..Len(tasks) :
        tasks[i].job_id \in DOMAIN scraping_jobs =>
            Job(i).langsmith_trace_url =
                IF langsmith_client /\ FirstRunId(tasks[i].stream) # None
                THEN Some(TraceUrlPrefix \o FirstRunId(tasks[i].stream)[1])
                ELSE None

\* Tracing is configured and the stream carried two different identifiers:
\* the trace URL is that of the first.
FirstRunIdWinsWitness ==
    \E i \in 1..Len(tasks) :
        /\ langsmith_client
        /\ Len(tasks[i].stream) = 2
        /\ ChunkRunId(tasks[i].stream[1]) = Some(RunId)
        /\ ChunkRunId(tasks[i].stream[2]) = Some(RunId2)
        /\ Job(i).langsmith_trace_url = Some(TraceUrlPrefix \o RunId)

(***************************************************************************)
(* Properties of the parser (checked under SpecParser).                    *)
(***************************************************************************)
\* The places where a fence of three backticks stands.
FenceAt(s) == {q \in 1..Len(s) : StartsWithAt(s, Fence, q)}

\* The places where a fenced block tagged html opens: the fence and the tag
\* (letters in any case), with a closing fence somewhere after the tag.
BlockAt(s) ==
    {i \in 1..Len(s) : /\ StartsWithAt(Lower(s), FenceTag, i)
                       /\ \E q \in FenceAt(s) : q >= i + Len(FenceTag)}

\* What lies between the tag of the first such block and the next fence.
FirstInterior(s) ==
    LET i == CHOOSE a \in BlockAt(s) : \A b \in BlockAt(s) : a <= b
        closing == {q \in FenceAt(s) : q >= i + Len(FenceTag)}
        q == CHOOSE a \in closing : \A b \in closing : a <= b
    IN  SubSeq(s, i + Len(FenceTag), q - 1)

\* The statement of C9 as the specification words it: the parser returns
\* the trimmed interior of the first fenced html block, whatever it is.
FencedInteriorAlways ==
    (parse_out # <<>> /\ BlockAt(parse_in) # {}) =>
        parse_out[1] = Some(Strip(FirstInterior(parse_in)))

\* C9: for a text with a fenced html block the parser returns the trimmed
\* interior of the first such block when that starts with "<" and ends with
\* ">", and nothing otherwise.
FencedInteriorIfMarkup ==
    (parse_out # <<>> /\ BlockAt(parse_in) # {}) =>
        LET interior == Strip(FirstInterior(parse_in))
        IN  parse_out[1] = IF StartsWith(interior, <<"<">>) /\ EndsWith(interior, <<">">>)
                           THEN Some(interior)
                           ELSE None

\* A block between other text whose interior had whitespace to trim.
FencedInteriorWitness ==
    /\ parse_out # <<>>
    /\ BlockAt(parse_in) # {}
    /\ ~StartsWithAt(Lower(parse_in), FenceTag, 1)
    /\ ~EndsWith(parse_in, Fence)
    /\ FirstInterior(parse_in) # Strip(FirstInterior(parse_in))
    /\ parse_out[1] = Some(Strip(FirstInterior(parse_in)))

\* Where the first <html of s stands and where the </html> after it (0 if none).
HtmlStart(s) == Find(s, HtmlOpen, 1)

HtmlEnd(s) == IF HtmlStart(s) = 0 THEN 0 ELSE Find(s, HtmlClose, HtmlStart(s))

\* An HTML document embedded in s between other text: text that is not
\* whitespace before the first <html and after the </html> that closes it.
Embedded(s) ==
    /\ HtmlEnd(s) # 0
    /\ Strip(SubSeq(s, 1, HtmlStart(s) - 1)) # <<>>
    /\ Strip(SubSeq(s, HtmlEnd(s) + Len(HtmlClose), Len(s))) # <<>>

\* The statement of C16 as the specification words it: for a text without
\* a fenced html block that embeds a document between other text, the parser
\* returns the substring from the first <html to the matching </html>.
EmbeddedDocumentExtracted ==
    (parse_out # <<>> /\ BlockAt(parse_in) = {} /\ Embedded(parse_in)) =>
        parse_out[1] = Some(SubSeq(parse_in, HtmlStart(parse_in), HtmlEnd(parse_in) + Len(HtmlClose) - 1))

\* C16: for a text without a fenced html block the parser returns the
\* whole text, trimmed, when the trimmed text starts with <!DOCTYPE html or
\* starts with <html and ends with </html>, and nothing otherwise: nothing,
\* in particular, for a document embedded between other text.
WholeTextFallback ==
    (parse_out # <<>> /\ BlockAt(parse_in) = {}) =>
        LET whole == Strip(parse_in)
        IN  /\ parse_out[1] = IF \/ StartsWith(whole, DoctypeTag)
                                 \/ (StartsWith(whole, HtmlOpen) /\ EndsWith(whole, HtmlClose))
                              THEN Some(whole)
                              ELSE None
            /\ (Embedded(parse_in) /\ ~StartsWith(whole, DoctypeTag)) => parse_out[1] = None

\* A document between two other pieces of text: nothing was returned.
WholeTextFallbackWitness ==
    /\ parse_out = <<None>>
    /\ BlockAt(parse_in) = {}
    /\ Embedded(parse_in)
    /\ HtmlStart(parse_in) > 1

\* No fenced html block and none of the tags <!DOCTYPE html, <html, <body.
NoHtmlMarker(s) ==
    /\ BlockAt(s) = {}
    /\ ~Contains(s, DoctypeTag)
    /\ ~Contains(s, HtmlOpen)
    /\ ~Contains(s, <<"<", "b", "o", "d", "y">>)

\* C10: for a text without any HTML marker the parser returns nothing.
NoMarkerNoHtml ==
    (parse_out # <<>> /\ NoHtmlMarker(parse_in)) => parse_out[1] = None

\* The parser returned nothing for the empty text.
NoMarkerNoHtmlWitness ==
    /\ parse_in = <<>>
    /\ NoHtmlMarker(parse_in)
    /\ parse_out = <<None>>

=============================================================================
